---- MODULE Spec2Model ----
(***************************************************************************)
(* A model of the dependency injector github.com/MatthewValentine/provide. *)
(* A Provider owns a map of tasks (type, completion level) to states and a *)
(* map of types to values.  AddRule compiles a function into tasks,        *)
(* Provide walks the task graph (complete / do / state) and runs actions.  *)
(***************************************************************************)
EXTENDS Integers, Sequences, FiniteSets, TLC

\* Bounds of the model.
MaxDecls == 2     \* rules given to a Provider plus auto-providable pointer types
MaxDeps == 1      \* inputs of a rule; tagged fields plus PleaseProvide inputs of a type
MaxArity == 2     \* inputs plus outputs of a rule function
MaxSlots == 2     \* pointers passed to one Provide call

------------------------------------------------------------------------------
\* The types of the program: two pointers to structs (PA = *A, PB = *B), the
\* struct A itself, an interface I and the interface type error (E).
Types == {"PA", "PB", "A", "I", "E"}

Kind(typ) ==
    CASE typ \in {"PA", "PB"} -> "ptr"
      [] typ = "A" -> "struct"
      [] OTHER -> "interface"

isErrorType(typ) == Kind(typ) = "interface" /\ typ = "E"

isReferenceType(typ) == Kind(typ) \in {"ptr", "interface"}

\* reflect.PtrTo of the only non-pointer, non-interface type.
PtrTo(typ) == "PA"

SeqsUpTo(S, n) == UNION {[1..k -> S] : k \in 0..n}

task(typ, complete) == [Type |-> typ, Complete |-> complete]

\* The deferred action of a state (the Do closure and what it captured).
NoDo ==
    [kind |-> "nil", rule |-> 0, typ |-> "", fields |-> <<>>,
     hasInitFn |-> FALSE, ins |-> <<>>, nOut |-> 0]

state(done, inProgress, dependsOn, do) ==
    [Done |-> done, InProgress |-> inProgress, DependsOn |-> dependsOn, Do |-> do]

initializer(typ, partial, complete) ==
    [Type |-> typ, Partial |-> partial, Complete |-> complete]

\* A reflect.Value kept in the value map or set into a slot: who made it (a
\* rule's output pos, reflect.New, or Elem of a pointer), in which invocation n.
value(by, typ, rule, pos, n, isNil) ==
    [by |-> by, typ |-> typ, rule |-> rule, pos |-> pos, n |-> n, isNil |-> isNil]

\* The zero reflect.Value (a slot that was not set).
NoValue == value("none", "", 0, 0, 0, FALSE)

------------------------------------------------------------------------------
\* The arguments a caller may pass.

\* The types a function input or a tagged field is declared with.  An input
\* of type error is resolved as one of type I with no rule is.
DepTypes == Types \ {"E"}

\* A rule argument: a function with inputs and outputs, or something else.
\* The outputs are of every type but PB, which only the auto-provider makes.
RuleOutTypes == Types \ {"PB"}
Fns ==
    {fn \in [isFunc : {TRUE},
             ins : SeqsUpTo(DepTypes, MaxDeps),
             outs : SeqsUpTo(RuleOutTypes, MaxArity)] :
        Len(fn.ins) + Len(fn.outs) <= MaxArity}
    \cup {[isFunc |-> FALSE, ins |-> <<>>, outs |-> <<>>]}

\* A Provide argument: a pointer to a variable of a type, nil, or a non-pointer.
SlotArgs == Types \cup {"nil", "nonptr"}

\* What reflection finds in a pointer type: its provide-tagged fields and its
\* PleaseProvide method (inputs after the receiver, outputs).  A PleaseProvide
\* without outputs behaves as one whose error output is nil.
Tags == {"", "circular", "other"}
Decls ==
    {d \in [fields : SeqsUpTo([Type : DepTypes, tag : Tags], MaxDeps),
            hasInitFn : BOOLEAN,
            ins : SeqsUpTo(DepTypes, MaxDeps),
            outs : {<<>>, <<"E">>, <<"A">>}] :
        /\ Len(d.fields) + Len(d.ins) <= MaxDeps
        /\ d.hasInitFn => d.outs # <<>>
        /\ ~d.hasInitFn => (d.ins = <<>> /\ d.outs = <<>>)}

------------------------------------------------------------------------------
\* custom.go: the rule compiler.

NonErrorOuts(fn) == {i \in 1..Len(fn.outs) : ~isErrorType(fn.outs[i])}

\* The i-th (1-based) smallest element of a set of numbers.
RECURSIVE Nth(_, _)
Nth(S, i) ==
    LET m == CHOOSE x \in S : \A y \in S : x <= y
    IN IF i = 1 THEN m ELSE Nth(S \ {m}, i - 1)

customProvide(fn, id) ==
    IF ~fn.isFunc
    THEN [err |-> "providers must be functions", inits |-> <<>>]
    ELSE
        LET deps == [i \in 1..Len(fn.ins) |-> task(fn.ins[i], TRUE)]
            doFn == [NoDo EXCEPT !.kind = "rule", !.rule = id]
            outIdx == NonErrorOuts(fn)
        IN [err |-> "",
            inits |-> [j \in 1..Cardinality(outIdx) |->
                LET typ == fn.outs[Nth(outIdx, j)]
                IN initializer(typ,
                       state(FALSE, FALSE, deps, doFn),
                       state(FALSE, FALSE, <<task(typ, FALSE)>>, NoDo))]]

------------------------------------------------------------------------------
\* The auto-provider: derives an initializer for a type that has no rule.

\* The error the field loop raises for one tagged field ("" for none).
FieldErr(f) ==
    IF f.tag = "circular"
    THEN IF isReferenceType(f.Type) THEN "" ELSE "only reference types can be circularly provided"
    ELSE IF f.tag # "" THEN "unrecognized provide tag" ELSE ""

FirstFieldErr(fields) ==
    LET bad == {i \in 1..Len(fields) : FieldErr(fields[i]) # ""}
    IN IF bad = {} THEN "" ELSE FieldErr(fields[Nth(bad, 1)])

autoProvide(typ, d) ==
    LET none == state(FALSE, FALSE, <<>>, NoDo)
        fail(e) == [err |-> e, init |-> initializer(typ, none, none)]
    IN
    CASE Kind(typ) = "interface" -> fail("can't be automatically provided")
      [] Kind(typ) = "ptr" ->
            IF FirstFieldErr(d.fields) # "" THEN fail(FirstFieldErr(d.fields))
            ELSE IF d.hasInitFn /\ \E i \in 1..Len(d.outs) : ~isErrorType(d.outs[i])
            THEN fail("PleaseProvide must only return errors")
            ELSE IF Len(d.fields) = 0 /\ ~d.hasInitFn
            THEN fail("can't be automatically provided")
            ELSE
                LET deps == <<task(typ, FALSE)>>
                            \o [i \in 1..Len(d.fields) |->
                                  task(d.fields[i].Type, d.fields[i].tag # "circular")]
                            \o [i \in 1..Len(d.ins) |-> task(d.ins[i], TRUE)]
                    doFn == [NoDo EXCEPT !.kind = "inject", !.typ = typ,
                                !.fields = [i \in 1..Len(d.fields) |-> d.fields[i].Type],
                                !.hasInitFn = d.hasInitFn, !.ins = d.ins,
                                !.nOut = Len(d.outs)]
                IN [err |-> "",
                    init |-> initializer(typ,
                        state(FALSE, FALSE, <<>>, [NoDo EXCEPT !.kind = "new", !.typ = typ]),
                        state(FALSE, FALSE, deps, doFn))]
      [] OTHER ->
            [err |-> "",
             init |-> initializer(typ,
                state(FALSE, FALSE, <<task(PtrTo(typ), TRUE)>>,
                      [NoDo EXCEPT !.kind = "elem", !.typ = typ]),
                state(FALSE, FALSE, <<task(typ, FALSE)>>, NoDo))]

------------------------------------------------------------------------------
\* The Provider and the call in progress.

VARIABLES
    tasks,        \* Provider.tasks: map[task]state
    values,       \* Provider.values: map[reflect.Type]reflect.Value
    rules,        \* the functions compiled by customProvide, in order
    alreadyDone,  \* the alreadyDone latch of each compiled rule
    heap,         \* the struct a pointer made by reflect.New points to
    op,           \* the operation executing or last executed
    pc,           \* position in it: idle, slot, complete, do, deps, exec
    err,          \* the error an operation returned ("" while none has)
    cycle,        \* the type sequence of a cycle error
    errPos,       \* the output index of the non-nil error of a rule error
    reqs,         \* Provide: ptrsToRequests
    si,           \* Provide: index of the slot being served
    slots,        \* Provide: what each slot holds
    goals,        \* complete: goals
    gi,           \* complete: i
    stack,        \* do: stack
    newlyDone,    \* do: newlyDone
    cur,          \* do: t, the task taken from the top of the stack
    di,           \* do: index of dep in s.DependsOn
    hasDeps,      \* do: hasDeps
    calls,        \* times each rule's function was called (v.Call)
    ran           \* times each task's Do was executed

vars ==
    <<tasks, values, rules, alreadyDone, heap, op, pc, err, cycle, errPos, reqs, si,
      slots, goals, gi, stack, newlyDone, cur, di, hasDeps, calls, ran>>

provider == <<tasks, values, rules, alreadyDone, heap, calls, ran>>
provideLocals == <<reqs, si, slots>>
completeLocals == <<goals, gi>>
doLocals == <<stack, newlyDone, cur, di, hasDeps>>

AllTasks == [Type : Types, Complete : BOOLEAN]
PtrTypes == {typ \in Types : Kind(typ) = "ptr"}

EmptyMap == [x \in {} |-> x]
NoTask == task("", FALSE)

\* m[k] = v of a Go map.
Put(m, k, v) == [x \in DOMAIN m \cup {k} |-> IF x = k THEN v ELSE m[x]]

Init ==
    /\ tasks = EmptyMap
    /\ values = EmptyMap
    /\ rules = <<>>
    /\ alreadyDone = <<>>
    /\ heap = [typ \in PtrTypes |-> [fields |-> <<>>, inits |-> 0]]
    /\ op = "none"
    /\ pc = "idle"
    /\ err = ""
    /\ cycle = <<>>
    /\ errPos = 0
    /\ reqs = <<>>
    /\ si = 0
    /\ slots = <<>>
    /\ goals = <<>>
    /\ gi = 0
    /\ stack = <<>>
    /\ newlyDone = <<>>
    /\ cur = NoTask
    /\ di = 0
    /\ hasDeps = FALSE
    /\ calls = <<>>
    /\ ran = [t \in AllTasks |-> 0]

\* The declaration of a type without tags or PleaseProvide.
NoDecl == [fields |-> <<>>, hasInitFn |-> FALSE, ins |-> <<>>, outs |-> <<>>]

\* The pointer types that were derived automatically.
autoDerived ==
    {typ \in PtrTypes :
        /\ task(typ, TRUE) \in DOMAIN tasks
        /\ \A r \in 1..Len(rules) : \A i \in 1..Len(rules[r].outs) : rules[r].outs[i] # typ}

DeclsFor(t) ==
    IF t \in DOMAIN tasks \/ Kind(t.Type) # "ptr" THEN {NoDecl}
    ELSE IF Len(rules) + Cardinality(autoDerived) >= MaxDecls THEN {NoDecl}
    ELSE Decls

\* A Provider is no longer valid to use after it returns an error.
Usable == pc = "idle" /\ err = ""

------------------------------------------------------------------------------
\* AddRule.

\* A variant that installs without looking for an existing task.
RECURSIVE install_noCheck(_, _, _)
install_noCheck(tks, inits, i) ==
    IF i > Len(inits) THEN [err |-> "", tasks |-> tks]
    ELSE install_noCheck(
            Put(Put(tks, task(inits[i].Type, FALSE), inits[i].Partial),
                task(inits[i].Type, TRUE), inits[i].Complete),
            inits, i + 1)

\* A variant that installs the Partial task alone.
RECURSIVE install_partialOnly(_, _, _)
install_partialOnly(tks, inits, i) ==
    IF i > Len(inits) THEN [err |-> "", tasks |-> tks]
    ELSE IF task(inits[i].Type, FALSE) \in DOMAIN tks \/ task(inits[i].Type, TRUE) \in DOMAIN tks
    THEN [err |-> "trying to provide the same type in multiple ways", tasks |-> tks]
    ELSE install_partialOnly(Put(tks, task(inits[i].Type, FALSE), inits[i].Partial),
                             inits, i + 1)

\* The loop over the initializers: the map it leaves and the error it returns.
RECURSIVE install(_, _, _)
install(tks, inits, i) ==
    IF i > Len(inits) THEN [err |-> "", tasks |-> tks]
    ELSE
        LET init == inits[i]
            partial == task(init.Type, FALSE)
            complete == task(init.Type, TRUE)
        IN IF partial \in DOMAIN tks \/ complete \in DOMAIN tks
           THEN [err |-> "trying to provide the same type in multiple ways", tasks |-> tks]
           ELSE install(Put(Put(tks, partial, init.Partial), complete, init.Complete),
                        inits, i + 1)

AddRule(provideFn) ==
    /\ Usable
    /\ Len(rules) + Cardinality(autoDerived) < MaxDecls
    /\ LET compiled == customProvide(provideFn, Len(rules) + 1)
           res == install(tasks, compiled.inits, 1)
       IN /\ op' = "AddRule"
          /\ IF compiled.err # ""
             THEN /\ err' = compiled.err
                  /\ UNCHANGED <<tasks, rules, alreadyDone, calls>>
             ELSE /\ err' = res.err
                  /\ tasks' = res.tasks
                  /\ rules' = Append(rules, provideFn)
                  /\ alreadyDone' = Append(alreadyDone, FALSE)
                  /\ calls' = Append(calls, 0)
    /\ UNCHANGED <<values, heap, ran, pc, cycle, errPos>>
    /\ UNCHANGED <<provideLocals, completeLocals, doLocals>>

------------------------------------------------------------------------------
\* Provide: the loop over the slots.  The call has n arguments; the loop reads
\* them one at a time, and the model draws each when the loop reaches it.

Provide(n) ==
    /\ Usable
    /\ op' = "Provide"
    /\ pc' = "slot"
    /\ reqs' = <<>>
    /\ si' = 1
    /\ slots' = [i \in 1..n |-> NoValue]
    /\ UNCHANGED <<provider, err, cycle, errPos, completeLocals, doLocals>>

NotPointerErr == "arguments to Provide must be non-nil pointers"
ErrorTypeErr == "it is considered an error and cannot be provided"

\* A variant that does not look for an error type.
validate_noErrorCheck(ptr) ==
    IF ptr \in {"nil", "nonptr"} THEN NotPointerErr ELSE ""

\* The two checks on an argument before complete is called for it: the error
\* returned ("" when the argument passes).
validate(ptr) ==
    IF ptr \in {"nil", "nonptr"} THEN NotPointerErr
    ELSE IF isErrorType(ptr) THEN ErrorTypeErr
    ELSE ""

\* The head of the loop: return nil, reject the slot, or call complete(t).
ProvideSlot ==
    /\ pc = "slot"
    /\ IF si > Len(slots)
       THEN /\ pc' = "idle"
            /\ UNCHANGED <<err, reqs, completeLocals>>
       ELSE \E ptr \in SlotArgs :
            /\ reqs' = Append(reqs, ptr)
            /\ IF validate(ptr) # ""
               THEN /\ pc' = "idle"
                    /\ err' = validate(ptr)
                    /\ UNCHANGED completeLocals
               ELSE /\ pc' = "complete"
                    /\ goals' = <<task(ptr, TRUE)>>
                    /\ gi' = 1
                    /\ UNCHANGED err
    /\ UNCHANGED <<provider, op, cycle, errPos, si, slots, doLocals>>

\* A variant that sets the slot and every slot after it.
Set_fromHere(slts, i, v) == [j \in 1..Len(slts) |-> IF j >= i THEN v ELSE slts[j]]

\* v.Set(value) on the slot ptrsToRequests[i] points to.
Set(slts, i, v) == [slts EXCEPT ![i] = v]

\* complete: the head of the loop over the goals.  When the goals are
\* exhausted complete returns nil and Provide reads the value and sets the slot.
Complete ==
    /\ pc = "complete"
    /\ IF gi <= Len(goals)
       THEN /\ pc' = "do"
            /\ stack' = <<goals[gi]>>
            /\ newlyDone' = <<>>
            /\ UNCHANGED <<err, si, slots, completeLocals>>
       ELSE IF reqs[si] \notin DOMAIN values
       THEN /\ pc' = "idle"
            /\ err' = "should never happen: couldn't find value"
            /\ UNCHANGED <<si, slots, stack, newlyDone, completeLocals>>
       ELSE /\ pc' = "slot"
            /\ slots' = Set(slots, si, values[reqs[si]])
            /\ si' = si + 1
            /\ goals' = <<>>
            /\ gi' = 0
            /\ UNCHANGED <<err, stack, newlyDone>>
    /\ UNCHANGED <<provider, op, cycle, errPos, reqs, cur, di, hasDeps>>

------------------------------------------------------------------------------
\* The actions (Do closures).  Each yields the error it returns ("" for nil)
\* and the maps it leaves.  Reading a missing key of the value map yields the
\* zero reflect.Value, and reflect panics when that is called, set or
\* dereferenced.

Panic == "panic: reflect: zero Value"

Missing(vals, typs) == \E i \in 1..Len(typs) : typs[i] \notin DOMAIN vals

\* A variant that stores every output before looking at the errors.
RECURSIVE storeOutputs_all(_, _, _, _, _, _, _)
storeOutputs_all(vals, r, n, outs, i, stop, nilp) ==
    IF i > Len(outs) THEN vals
    ELSE IF isErrorType(outs[i]) THEN storeOutputs_all(vals, r, n, outs, i + 1, stop, nilp)
    ELSE storeOutputs_all(
            Put(vals, outs[i],
                value("rule", outs[i], r, i, n, nilp /\ Kind(outs[i]) = "ptr")),
            r, n, outs, i + 1, stop, nilp)

\* A variant that stores the first output that is not an error, and no other.
RECURSIVE storeOutputs_firstOnly(_, _, _, _, _, _, _)
storeOutputs_firstOnly(vals, r, n, outs, i, stop, nilp) ==
    IF i > stop THEN vals
    ELSE IF isErrorType(outs[i])
    THEN storeOutputs_firstOnly(vals, r, n, outs, i + 1, stop, nilp)
    ELSE Put(vals, outs[i],
             value("rule", outs[i], r, i, n, nilp /\ Kind(outs[i]) = "ptr"))

\* values[outs[i].Type] = outputs[i] for the outputs i..stop of the n-th
\* call of rule r.
RECURSIVE storeOutputs(_, _, _, _, _, _, _)
storeOutputs(vals, r, n, outs, i, stop, nilp) ==
    IF i > stop THEN vals
    ELSE IF isErrorType(outs[i]) THEN storeOutputs(vals, r, n, outs, i + 1, stop, nilp)
    ELSE storeOutputs(
            Put(vals, outs[i],
                value("rule", outs[i], r, i, n, nilp /\ Kind(outs[i]) = "ptr")),
            r, n, outs, i + 1, stop, nilp)

\* A variant without the alreadyDone latch: every task of the rule calls it.
customDoFn_noLatch(r, k, nilp, st) ==
    LET fn == rules[r]
    IN IF Missing(st.values, fn.ins) THEN [st EXCEPT !.err = Panic]
       ELSE [st EXCEPT !.calls[r] = @ + 1,
                       !.values = storeOutputs(st.values, r, st.calls[r] + 1, fn.outs, 1,
                                      IF k = 0 THEN Len(fn.outs) ELSE k - 1, nilp),
                       !.err = IF k = 0 THEN "" ELSE "rule error",
                       !.errPos = k]

\* A variant that empties the value map when the function returns an error.
customDoFn_rollback(r, k, nilp, st) ==
    IF st.alreadyDone[r] THEN st
    ELSE IF Missing(st.values, rules[r].ins)
    THEN [st EXCEPT !.alreadyDone[r] = TRUE, !.err = Panic]
    ELSE IF k = 0
    THEN [st EXCEPT !.alreadyDone[r] = TRUE,
                    !.calls[r] = @ + 1,
                    !.values = storeOutputs(st.values, r, st.calls[r] + 1, rules[r].outs,
                                            1, Len(rules[r].outs), nilp)]
    ELSE [st EXCEPT !.alreadyDone[r] = TRUE,
                    !.calls[r] = @ + 1,
                    !.values = EmptyMap,
                    !.err = "rule error",
                    !.errPos = k]

\* The shared action of rule r.  k is the first error output that the call
\* returns non-nil (0: none), nilp whether its pointer outputs are nil.
customDoFn(r, k, nilp, st) ==
    IF st.alreadyDone[r] THEN st
    ELSE
        LET fn == rules[r]
            latched == [st EXCEPT !.alreadyDone[r] = TRUE]
        IN IF Missing(st.values, fn.ins) THEN [latched EXCEPT !.err = Panic]
           ELSE
               LET called == [latched EXCEPT !.calls[r] = @ + 1]
                   stop == IF k = 0 THEN Len(fn.outs) ELSE k - 1
                   stored == storeOutputs(st.values, r, st.calls[r] + 1, fn.outs, 1,
                                          stop, nilp)
               IN [called EXCEPT !.values = stored,
                                 !.err = IF k = 0 THEN "" ELSE "rule error",
                                 !.errPos = k]

\* The Partial action of an auto-provided pointer type: reflect.New.
autoNew(do, n, st) ==
    [st EXCEPT !.values = Put(st.values, do.typ, value("new", do.typ, 0, 0, n, FALSE)),
               !.heap[do.typ] = [fields |-> <<>>, inits |-> 0]]

\* The Complete action of an auto-provided pointer type: set the fields,
\* then call PleaseProvide.  e: PleaseProvide returns a non-nil error.
autoDoFn(do, e, st) ==
    IF do.typ \notin DOMAIN st.values THEN [st EXCEPT !.err = Panic]
    ELSE IF st.values[do.typ].isNil /\ Len(do.fields) > 0 THEN [st EXCEPT !.err = Panic]
    ELSE IF Missing(st.values, do.fields) THEN [st EXCEPT !.err = Panic]
    ELSE
        LET set == IF Len(do.fields) > 0
                   THEN [st EXCEPT !.heap[do.typ].fields =
                            [i \in 1..Len(do.fields) |-> st.values[do.fields[i]]]]
                   ELSE st
        IN IF ~do.hasInitFn THEN set
           ELSE IF Missing(st.values, do.ins) THEN [set EXCEPT !.err = Panic]
           ELSE [set EXCEPT !.heap[do.typ].inits = @ + 1,
                            !.err = IF e THEN "PleaseProvide error" ELSE ""]

\* The Partial action of an auto-provided non-pointer type: dereference.
autoElem(do, st) ==
    LET ptrTo == PtrTo(do.typ)
    IN IF ptrTo \notin DOMAIN st.values THEN [st EXCEPT !.err = Panic]
       ELSE IF st.values[ptrTo].isNil
       THEN [st EXCEPT !.err = "can't use nil pointer to automatically provide value"]
       ELSE [st EXCEPT !.values = Put(st.values, do.typ,
                [st.values[ptrTo] EXCEPT !.by = "elem", !.typ = do.typ])]

\* s.Do(p.values) for the task t.
Do(t, do, k, nilp, st) ==
    CASE do.kind = "rule" -> customDoFn(do.rule, k, nilp, st)
      [] do.kind = "new" -> autoNew(do, ran[t] + 1, st)
      [] do.kind = "inject" -> autoDoFn(do, k # 0, st)
      [] do.kind = "elem" -> autoElem(do, st)

\* What the called function may return: the first non-nil error output.
ErrChoices(do) ==
    CASE do.kind = "rule" /\ ~alreadyDone[do.rule] ->
            {0} \cup {i \in 1..Len(rules[do.rule].outs) : isErrorType(rules[do.rule].outs[i])}
      [] do.kind = "inject" /\ do.hasInitFn /\ do.nOut > 0 -> {0, 1}
      [] OTHER -> {0}

NilChoices(do) ==
    IF /\ do.kind = "rule"
       /\ ~alreadyDone[do.rule]
       /\ \E i \in 1..Len(rules[do.rule].outs) : Kind(rules[do.rule].outs[i]) = "ptr"
    THEN BOOLEAN ELSE {FALSE}

------------------------------------------------------------------------------
\* Provider.state: the state of a task, deriving it when the type is new.
\* d is what reflection finds in the type.

Provider_state(tks, t, d) ==
    IF t \in DOMAIN tks THEN [err |-> "", tasks |-> tks]
    ELSE
        LET auto == autoProvide(t.Type, d)
        IN IF auto.err # "" THEN [err |-> auto.err, tasks |-> tks]
           ELSE [err |-> "",
                 tasks |-> Put(Put(tks, task(t.Type, FALSE), auto.init.Partial),
                               task(t.Type, TRUE), auto.init.Complete)]

------------------------------------------------------------------------------
\* Provider.do: the walk.

\* A variant that loses the update: the task stays in progress.
done_lost(s) == s

\* A variant that clears the edges and the action and does not set Done.
done_notDone(s) == [s EXCEPT !.DependsOn = <<>>, !.Do = NoDo]

\* A variant that sets Done and keeps the edges and the action.
done_keepsEdges(s) == [s EXCEPT !.Done = TRUE]

\* s.Done = true; s.DependsOn = nil; s.Do = nil
done(s) == [s EXCEPT !.Done = TRUE, !.DependsOn = <<>>, !.Do = NoDo]

\* The goals complete appends for what do reports as newly done.
newGoals(nd) ==
    LET partials == SelectSeq(nd, LAMBDA t : ~t.Complete)
    IN [i \in 1..Len(partials) |-> task(partials[i].Type, TRUE)]

\* A variant that pops the task and the one below it.
Front_two(q) == SubSeq(q, 1, Len(q) - 2)

\* A variant that leaves the task on the stack.
Front_keep(q) == q

\* stack[:len(stack)-1]
Front(q) == SubSeq(q, 1, Len(q) - 1)
Top(q) == q[Len(q)]

\* do returns newlyDone to complete, which appends the Complete goals.
DoReturn ==
    /\ pc = "do"
    /\ stack = <<>>
    /\ pc' = "complete"
    /\ goals' = goals \o newGoals(newlyDone)
    /\ gi' = gi + 1
    /\ newlyDone' = <<>>
    /\ cur' = NoTask
    /\ di' = 0
    /\ hasDeps' = FALSE
    /\ UNCHANGED <<provider, op, err, cycle, errPos, provideLocals, stack>>

\* The head of the while loop: take the top task and look up its state.
DoTop ==
    /\ pc = "do"
    /\ stack # <<>>
    /\ LET t == Top(stack)
       IN \E d \in DeclsFor(t) :
            LET res == Provider_state(tasks, t, d)
                s == res.tasks[t]
            IN IF res.err # ""
               THEN /\ err' = res.err
                    /\ pc' = "idle"
                    /\ UNCHANGED <<tasks, doLocals>>
               ELSE /\ tasks' = res.tasks
                    /\ cur' = t
                    /\ UNCHANGED <<err, newlyDone>>
                    /\ IF ~s.Done /\ ~s.InProgress
                       THEN /\ pc' = "deps"
                            /\ di' = 1
                            /\ hasDeps' = FALSE
                            /\ UNCHANGED stack
                       ELSE IF ~s.Done /\ s.InProgress
                       THEN /\ pc' = "exec"
                            /\ UNCHANGED <<stack, di, hasDeps>>
                       ELSE /\ pc' = "do"
                            /\ stack' = Front(stack)
                            /\ UNCHANGED <<di, hasDeps>>
    /\ UNCHANGED <<values, rules, alreadyDone, heap, calls, ran>>
    /\ UNCHANGED <<op, cycle, errPos, provideLocals, completeLocals>>

\* The stack from the first position of t to the top, as type names.
cycleOf(stk, t) ==
    LET i == IF \E j \in 1..Len(stk) : stk[j] = t
             THEN Nth({j \in 1..Len(stk) : stk[j] = t}, 1)
             ELSE Len(stk) + 1
    IN [j \in 1..(Len(stk) - i + 1) |-> stk[i + j - 1].Type]

\* A variant that ranges over the dependencies from the last to the first.
nthDep_reversed(s, i) == s.DependsOn[Len(s.DependsOn) + 1 - i]

\* The dependency the i-th turn of the range over s.DependsOn looks at.
nthDep(s, i) == s.DependsOn[i]

\* One turn of the loop over s.DependsOn, and what follows the loop.
DoDep ==
    /\ pc = "deps"
    /\ LET s == tasks[cur]
       IN IF di > Len(s.DependsOn)
          THEN /\ tasks' = [tasks EXCEPT ![cur].InProgress = TRUE]
               /\ pc' = IF hasDeps THEN "do" ELSE "exec"
               /\ UNCHANGED <<err, cycle, doLocals>>
          ELSE
            LET dep == nthDep(s, di)
            IN \E d \in DeclsFor(dep) :
                 LET res == Provider_state(tasks, dep, d)
                     depState == res.tasks[dep]
                 IN IF res.err # ""
                    THEN /\ err' = res.err
                         /\ pc' = "idle"
                         /\ UNCHANGED <<tasks, cycle, doLocals>>
                    ELSE /\ tasks' = res.tasks
                         /\ IF depState.Done
                            THEN /\ di' = di + 1
                                 /\ UNCHANGED <<pc, err, cycle, stack, hasDeps>>
                            ELSE IF depState.InProgress
                            THEN /\ err' = "cycle"
                                 /\ cycle' = cycleOf(stack, cur)
                                 /\ pc' = "idle"
                                 /\ UNCHANGED <<stack, di, hasDeps>>
                            ELSE /\ stack' = Append(stack, dep)
                                 /\ hasDeps' = TRUE
                                 /\ di' = di + 1
                                 /\ UNCHANGED <<pc, err, cycle>>
                         /\ UNCHANGED <<newlyDone, cur>>
    /\ UNCHANGED <<values, rules, alreadyDone, heap, calls, ran>>
    /\ UNCHANGED <<op, errPos, provideLocals, completeLocals>>

\* Returning after the dependencies: run the action, mark the task Done, pop.
DoExec ==
    /\ pc = "exec"
    /\ LET s == tasks[cur]
           before == [err |-> "", errPos |-> 0, values |-> values,
                      alreadyDone |-> alreadyDone, heap |-> heap, calls |-> calls]
       IN IF s.Do.kind = "nil"
          THEN /\ tasks' = [tasks EXCEPT ![cur] = done(s)]
               /\ stack' = Front(stack)
               /\ pc' = "do"
               /\ UNCHANGED <<values, alreadyDone, heap, calls, ran, err, errPos, newlyDone>>
          ELSE \E k \in ErrChoices(s.Do), nilp \in NilChoices(s.Do) :
                 LET after == Do(cur, s.Do, k, nilp, before)
                 IN /\ values' = after.values
                    /\ alreadyDone' = after.alreadyDone
                    /\ heap' = after.heap
                    /\ calls' = after.calls
                    /\ ran' = [ran EXCEPT ![cur] = @ + 1]
                    /\ err' = after.err
                    /\ errPos' = after.errPos
                    /\ IF after.err # ""
                       THEN /\ pc' = "idle"
                            /\ UNCHANGED <<tasks, stack, newlyDone>>
                       ELSE /\ newlyDone' = Append(newlyDone, cur)
                            /\ tasks' = [tasks EXCEPT ![cur] = done(s)]
                            /\ stack' = Front(stack)
                            /\ pc' = "do"
    /\ UNCHANGED <<rules, op, cycle, provideLocals, completeLocals, cur, di, hasDeps>>

------------------------------------------------------------------------------
Next ==
    \/ \E provideFn \in Fns : AddRule(provideFn)
    \/ \E n \in 0..MaxSlots : Provide(n)
    \/ ProvideSlot
    \/ Complete
    \/ DoReturn
    \/ DoTop
    \/ DoDep
    \/ DoExec

Spec == Init /\ [][Next]_vars

\* The steps of a call.  A call runs synchronously in the caller's
\* goroutine: once started, its next statement is executed.
CallStep == ProvideSlot \/ Complete \/ DoReturn \/ DoTop \/ DoDep \/ DoExec

FairSpec == Spec /\ WF_vars(CallStep)

------------------------------------------------------------------------------
\* Properties.

Returned(o) == op = o /\ pc = "idle"
ReturnedNil(o) == Returned(o) /\ err = ""
ReturnedErr(o) == Returned(o) /\ err # ""

\* The rules whose AddRule returned nil.
Registered ==
    {r \in 1..Len(rules) : ~(ReturnedErr("AddRule") /\ r = Len(rules))}

IsDone(t) == t \in DOMAIN tasks /\ tasks[t].Done

\* A value once stored for a type stays the value stored for it.
ValuesKept ==
    \A typ \in DOMAIN values : typ \in DOMAIN values' /\ values'[typ] = values[typ]

\* No rule function, task action or PleaseProvide ran more than once.
AtMostOnce ==
    /\ \A r \in 1..Len(calls) : calls[r] <= 1
    /\ \A t \in AllTasks : ran[t] <= 1
    /\ \A typ \in PtrTypes : heap[typ].inits <= 1

\* A slot that was set holds the value stored for its type.
SlotsHoldStored ==
    \A i \in 1..Len(slots) :
        slots[i] # NoValue => (i <= Len(reqs) /\ reqs[i] \in DOMAIN values
                               /\ slots[i] = values[reqs[i]])

\* C1: singleton idempotence.  The value stored for a type never changes, so
\* every request for the type is given the same value, and every rule
\* function, task action and PleaseProvide method runs at most once.
C1_SingletonIdempotence ==
    /\ [][ValuesKept]_vars
    /\ [](AtMostOnce /\ SlotsHoldStored)

\* PA, made by an earlier walk with its PleaseProvide and the rule it depends
\* on, is requested again: the walk finds it Done and nothing runs again.
C1_Witness ==
    /\ pc = "complete"
    /\ goals = <<task("PA", TRUE)>>
    /\ gi = 2
    /\ IsDone(task("PA", TRUE))
    /\ values["PA"].by = "new"
    /\ ran[task("PA", TRUE)] = 1
    /\ heap["PA"].inits = 1
    /\ calls = <<1>>

\* The rules with two outputs that are not errors.
TwoOutputs == {r \in Registered : Cardinality(NonErrorOuts(rules[r])) >= 2}

BothRequested(r) ==
    \A i \in NonErrorOuts(rules[r]) : IsDone(task(rules[r].outs[i], FALSE))

\* A Partial task of rule r is about to run the action after the latch is set.
Revisit(r) ==
    /\ pc = "exec"
    /\ tasks[cur].Do.kind = "rule"
    /\ tasks[cur].Do.rule = r
    /\ alreadyDone[r]

\* C2: a rule with outputs X and Y whose Partial tasks are both Done has been
\* called exactly once, each Partial task ran the shared action once, both
\* values are stored, and the second run of the action changed nothing and
\* returned nil.
C2_MultiOutputOnce ==
    /\ [](\A r \in TwoOutputs : BothRequested(r) =>
            /\ calls[r] = 1
            /\ \A i \in NonErrorOuts(rules[r]) :
                  /\ ran[task(rules[r].outs[i], FALSE)] = 1
                  /\ rules[r].outs[i] \in DOMAIN values
                  /\ values[rules[r].outs[i]].rule = r)
    /\ [][\A r \in 1..Len(rules) : Revisit(r) =>
             (values' = values /\ calls' = calls /\ err' = "" /\ IsDone(cur)')]_vars

\* X was requested by one call and Y by a later one.
C2_Witness ==
    /\ ReturnedNil("Provide")
    /\ rules = <<[isFunc |-> TRUE, ins |-> <<>>, outs |-> <<"I", "PA">>]>>
    /\ BothRequested(1)
    /\ reqs = <<"PA">>
    /\ slots = <<values["PA"]>>

Range(q) == {q[i] : i \in 1..Len(q)}

\* The dependency edges of the tasks in the task map.
Deps(t) == IF t \in DOMAIN tasks THEN Range(tasks[t].DependsOn) ELSE {}

RECURSIVE ReachableFrom(_)
ReachableFrom(S) ==
    LET more == S \cup UNION {Deps(t) : t \in S}
    IN IF more = S THEN S ELSE ReachableFrom(more)

OnCycle(t) == Deps(t) # {} /\ t \in ReachableFrom(Deps(t))

\* C3: when a task's action is executed, every task in its DependsOn is Done.
C3_DependsBeforeDependent ==
    (pc = "exec" /\ tasks[cur].Do.kind # "nil") =>
        \A dep \in Deps(cur) : IsDone(dep)

\* C4: no task on a dependency cycle has its action executed, and a Provide
\* whose requested types reach a cycle returns a cycle error.
C4_CycleRejection ==
    /\ \A t \in DOMAIN tasks : OnCycle(t) => ran[t] = 0
    /\ \A i \in 1..Len(reqs) :
          (/\ Returned("Provide")
           /\ reqs[i] \in Types
           /\ \E t \in ReachableFrom({task(reqs[i], TRUE)}) : OnCycle(t))
          => err = "cycle"

\* C5: a cycle error reports the stack from the position of the in-progress
\* dependency to the top, which names the dependency's type and the type of
\* the task that depends on it.
C5_CycleReport ==
    (err = "cycle" /\ tasks[cur].DependsOn[di].Type # cur.Type) =>
        LET dep == tasks[cur].DependsOn[di]
        IN /\ cycle = cycleOf(stack, dep)
           /\ {dep.Type, cur.Type} \subseteq Range(cycle)

\* Every type whose Partial task is Done has its Complete task Done.
AllCompleted ==
    \A typ \in Types : IsDone(task(typ, FALSE)) => IsDone(task(typ, TRUE))

\* C6: when Provide returns nil every type whose Partial task is Done has its
\* Complete task Done, also a type reached only through a circular field; and
\* the action of a task on a cycle of dependencies never completes: the call
\* fails, also when the cycle is behind a circular field.
C6_CircularBreakCompletion ==
    /\ [](ReturnedNil("Provide") => AllCompleted)
    /\ [][(pc = "exec" /\ OnCycle(cur)) => err' # ""]_vars

\* C7: a Provide call that returns an error has populated none of its slots.
C7_NoPartialResults ==
    ReturnedErr("Provide") => \A i \in 1..Len(slots) : slots[i] = NoValue

\* C7 as amended: a Provide call that returns an error stopped at the slot si
\* it was serving: that slot and the later ones are not populated, no later
\* argument was looked at, and the slots before it hold their stored values.
C7_SlotsBeforeFailure ==
    ReturnedErr("Provide") =>
        /\ si <= Len(slots)
        /\ Len(reqs) = si
        /\ \A i \in 1..Len(slots) :
              /\ i < si => (reqs[i] \in DOMAIN values /\ slots[i] = values[reqs[i]])
              /\ i >= si => slots[i] = NoValue

\* The second slot failed after the first was populated.
C7_Witness ==
    /\ ReturnedErr("Provide")
    /\ Len(slots) = 2
    /\ si = 2
    /\ slots[1] # NoValue
    /\ slots[2] = NoValue

\* The rule whose function returned the error.
FailedRule == tasks[cur].Do.rule

\* C8: when a rule's function returns a non-nil error, none of the rule's
\* outputs is in the value map.
C8_RuleFailureStoresNothing ==
    err = "rule error" =>
        \A i \in NonErrorOuts(rules[FailedRule]) :
            rules[FailedRule].outs[i] \notin DOMAIN values

\* C8 as amended: the action aborts with the error of the output errPos; the
\* outputs before it are stored, the outputs after it are not, and the task
\* is not Done.
C8_StoresOutputsBeforeError ==
    err = "rule error" =>
        LET fn == rules[FailedRule]
        IN /\ errPos \in 1..Len(fn.outs)
           /\ isErrorType(fn.outs[errPos])
           /\ calls[FailedRule] = 1
           /\ ~IsDone(cur)
           /\ \A i \in NonErrorOuts(fn) :
                 /\ i < errPos => /\ fn.outs[i] \in DOMAIN values
                                  /\ values[fn.outs[i]].rule = FailedRule
                                  /\ values[fn.outs[i]].pos = i
                 /\ i > errPos => fn.outs[i] \notin DOMAIN values

\* A rule returned its value and a non-nil error after it.
C8_Witness ==
    /\ err = "rule error"
    /\ rules[FailedRule].outs = <<"I", "E">>
    /\ errPos = 2
    /\ "I" \in DOMAIN values

ConflictErr == "trying to provide the same type in multiple ways"

\* The step of an AddRule call that compiled its function.
AddRuleStep == Usable /\ op' = "AddRule" /\ rules' # rules

HasTask(typ) == task(typ, FALSE) \in DOMAIN tasks \/ task(typ, TRUE) \in DOMAIN tasks

\* C9: AddRule returns a conflict error when an output type of the rule has a
\* task already; it runs no resolution (no action, no value, no change to an
\* existing task); and when it returns nil each output type, which had no
\* task, has the rule's Partial and Complete tasks.
C9_ConflictAtRegistration ==
    [][AddRuleStep =>
        LET r == Len(rules')
            fn == rules'[r]
            outs == {fn.outs[i] : i \in NonErrorOuts(fn)}
        IN /\ (\E typ \in outs : HasTask(typ)) => err' = ConflictErr
           /\ err' \in {"", ConflictErr}
           /\ values' = values /\ ran' = ran /\ heap' = heap /\ pc' = "idle"
           /\ \A t \in DOMAIN tasks : t \in DOMAIN tasks' /\ tasks'[t] = tasks[t]
           /\ err' = "" =>
                \A typ \in outs :
                    /\ ~HasTask(typ)
                    /\ task(typ, FALSE) \in DOMAIN tasks'
                    /\ task(typ, TRUE) \in DOMAIN tasks'
                    /\ tasks'[task(typ, FALSE)].Do.rule = r
                    /\ tasks'[task(typ, FALSE)].DependsOn =
                          [i \in 1..Len(fn.ins) |-> task(fn.ins[i], TRUE)]
                    /\ tasks'[task(typ, TRUE)].DependsOn = <<task(typ, FALSE)>>
                    /\ ~tasks'[task(typ, FALSE)].Done
                    /\ ~tasks'[task(typ, TRUE)].Done]_vars

\* A rule for PA was refused because a Provide had derived PA automatically.
C9_Witness ==
    /\ ReturnedErr("AddRule")
    /\ err = ConflictErr
    /\ rules[Len(rules)].outs = <<"PA">>
    /\ "PA" \in DOMAIN values
    /\ values["PA"].by = "new"

\* The types that registered rules produce.
RuleTypes ==
    {rules[r].outs[i] : <<r, i>> \in
        {<<r, i>> \in Registered \X (1..MaxArity) : i \in NonErrorOuts(rules[r])}}

\* C10: a type a registered rule produces is never constructed automatically:
\* its tasks are the rule's, its value is an output of the rule, and no
\* reflect.New, field injection or PleaseProvide happens for it.
C10_RulePrecedence ==
    \A typ \in RuleTypes :
        /\ task(typ, FALSE) \in DOMAIN tasks /\ task(typ, TRUE) \in DOMAIN tasks
        /\ tasks[task(typ, FALSE)].Do.kind \in {"rule", "nil"}
        /\ tasks[task(typ, TRUE)].Do.kind = "nil"
        /\ ran[task(typ, TRUE)] = 0
        /\ typ \in DOMAIN values => values[typ].by = "rule"
        /\ typ \in PtrTypes => heap[typ] = [fields |-> <<>>, inits |-> 0]

\* PA, which a rule produces, was requested and the rule's value was given.
C10_Witness ==
    /\ ReturnedNil("Provide")
    /\ "PA" \in RuleTypes
    /\ reqs = <<"PA">>
    /\ slots = <<values["PA"]>>
    /\ values["PA"].by = "rule"

\* The errors of the checks on an argument.
ValidationErrs == {NotPointerErr, ErrorTypeErr}

Rejected == ReturnedErr("Provide") /\ err \in ValidationErrs

\* C11: a Provide call with a bad slot (nil, not a pointer, or of an error
\* type) is rejected before any resolution: whatever the position of the bad
\* slot, no slot was resolved and no slot was populated by the call.
C11_ValidationPrecedesResolution ==
    Rejected => (si = 1 /\ \A i \in 1..Len(slots) : slots[i] = NoValue)

\* The step that rejects a slot.
RejectStep == pc = "slot" /\ pc' = "idle" /\ err' # ""

Resolving == pc \in {"complete", "do", "deps", "exec"}

\* C11 as amended: a bad slot is rejected before the resolution of that slot:
\* complete is only ever running for a slot that passed the checks; the step
\* that rejects changes no task, runs no action and leaves the value map and
\* every slot as they are; the slots before the bad one were resolved and
\* populated, and no slot after it was looked at.
C11_ValidationPrecedesSlotResolution ==
    /\ [](Resolving => (reqs[si] \in Types /\ ~isErrorType(reqs[si])))
    /\ [][RejectStep =>
            /\ err' \in ValidationErrs
            /\ UNCHANGED <<tasks, values, heap, alreadyDone, calls, ran, slots, si>>]_vars
    /\ [](Rejected =>
            /\ Len(reqs) = si
            /\ reqs[si] \in {"nil", "nonptr"} \/ isErrorType(reqs[si])
            /\ \A i \in 1..(si - 1) :
                  /\ reqs[i] \in Types /\ ~isErrorType(reqs[i])
                  /\ slots[i] = values[reqs[i]]
            /\ \A i \in si..Len(slots) : slots[i] = NoValue)

\* The second argument was an error type; the first had been resolved by
\* running the action of its task.
C11_Witness ==
    /\ Rejected
    /\ err = ErrorTypeErr
    /\ si = 2
    /\ reqs[2] = "E"
    /\ slots[1] # NoValue
    /\ ran[task(reqs[1], FALSE)] = 1

\* The value of a type is of that type and comes from the first run of what
\* made it.
WellTyped ==
    \A typ \in DOMAIN values : values[typ].typ = typ /\ values[typ].n = 1

\* C12: the value map is write-once.  It holds one value per type; only the
\* execution of an action writes to it; and an action, of a rule or of an
\* auto-provided type, in the request that wrote an entry or in a later one,
\* leaves every entry that exists as it is.
C12_WriteOnce ==
    /\ [][pc # "exec" => values' = values]_vars
    /\ [][pc = "exec" =>
            \A typ \in DOMAIN values :
                typ \in DOMAIN values' /\ values'[typ] = values[typ]]_vars
    /\ []WellTyped

\* The second Partial task of a rule with the outputs I and PA is executed in
\* a later request, when both outputs are in the value map.
C12_Witness ==
    /\ pc = "exec"
    /\ gi = 1
    /\ tasks[cur].Do.kind = "rule"
    /\ alreadyDone[tasks[cur].Do.rule]
    /\ {"I", "PA"} \subseteq DOMAIN values
    /\ values["I"].rule = tasks[cur].Do.rule
    /\ values["PA"].rule = tasks[cur].Do.rule

\* The Complete action of an auto-provided pointer type with tagged fields and
\* a PleaseProvide method is about to be executed.
InjectStep ==
    /\ pc = "exec"
    /\ tasks[cur].Do.kind = "inject"
    /\ Len(tasks[cur].Do.fields) > 0
    /\ tasks[cur].Do.hasInitFn

\* C13: the Complete action of an auto-provided pointer type with tagged
\* fields and a PleaseProvide method is executed only when the Partial task
\* of the type is Done; when it calls PleaseProvide every tagged field holds
\* the value stored for its type; and a non-nil error of PleaseProvide is the
\* error of the action.
C13_FieldThenInitializer ==
    /\ [](InjectStep => IsDone(task(cur.Type, FALSE)))
    /\ [][InjectStep =>
            LET do == tasks[cur].Do
                typ == cur.Type
            IN /\ heap'[typ].inits > heap[typ].inits =>
                    /\ Len(heap'[typ].fields) = Len(do.fields)
                    /\ \A i \in 1..Len(do.fields) :
                          heap'[typ].fields[i] = values[do.fields[i]]
               /\ err' = "PleaseProvide error" =>
                    (heap'[typ].inits > heap[typ].inits /\ ~IsDone(cur)')]_vars

Independent(a, b) ==
    a # b /\ a \notin ReachableFrom({b}) /\ b \notin ReachableFrom({a})

\* The tasks on the stack that have scheduled their dependencies and wait for
\* them, and whose dependencies are independent of each other.
Scheduled ==
    {t \in Range(stack) :
        /\ t \in DOMAIN tasks
        /\ tasks[t].InProgress /\ ~tasks[t].Done
        /\ t # cur
        /\ \A i, j \in 1..Len(tasks[t].DependsOn) :
              i # j => Independent(tasks[t].DependsOn[i], tasks[t].DependsOn[j])}

\* C14: siblings are executed left to right: when the action of a dependency
\* is executed, every independent dependency declared before it in the same
\* DependsOn is Done.
C14_SiblingsLeftToRight ==
    pc = "exec" =>
        \A t \in Scheduled : \A i, j \in 1..Len(tasks[t].DependsOn) :
            (i < j /\ tasks[t].DependsOn[j] = cur) => IsDone(tasks[t].DependsOn[i])

\* C14 as amended: siblings are executed right to left: when the action of a
\* dependency is executed, every independent dependency declared after it in
\* the same DependsOn is Done.
C14_SiblingsRightToLeft ==
    pc = "exec" =>
        \A t \in Scheduled : \A i, j \in 1..Len(tasks[t].DependsOn) :
            (i < j /\ tasks[t].DependsOn[i] = cur) => IsDone(tasks[t].DependsOn[j])

\* The first of two dependencies is executed after the action of the second,
\* which was not started when they were scheduled, has run in this walk.
C14_Witness ==
    /\ pc = "exec"
    /\ tasks[cur].Do.kind # "nil"
    /\ \E t \in Scheduled :
          /\ Len(tasks[t].DependsOn) = 2
          /\ tasks[t].DependsOn[1] = cur
          /\ tasks[t].DependsOn[2] \in Range(newlyDone)
          /\ ran[tasks[t].DependsOn[2]] = 1

\* 0: not started, 1: in progress, 2: done.
Phase(s) == IF s.Done THEN 2 ELSE IF s.InProgress THEN 1 ELSE 0

\* A step takes a task to its next phase or leaves its phase, keeps the
\* Done and InProgress flags that are set, and leaves a Done task as it is.
TaskStep ==
    \A t \in DOMAIN tasks :
        /\ t \in DOMAIN tasks'
        /\ Phase(tasks'[t]) \in {Phase(tasks[t]), Phase(tasks[t]) + 1}
        /\ tasks[t].Done => tasks'[t] = tasks[t]
        /\ tasks[t].InProgress => tasks'[t].InProgress

DoneShape ==
    \A t \in DOMAIN tasks :
        tasks[t].Done =>
            /\ tasks[t].InProgress
            /\ tasks[t].DependsOn = <<>>
            /\ tasks[t].Do = NoDo

\* C15: a task moves only from not started to in progress to Done; no step
\* resets Done or InProgress or changes the state of a Done task; and a Done
\* task has InProgress set, no dependencies and no action.
C15_TaskStateMachine == [][TaskStep]_vars /\ []DoneShape

\* A request finds its goal, whose action ran in an earlier walk, Done.
C15_Witness ==
    /\ pc = "do"
    /\ stack = <<goals[1]>>
    /\ gi = 1
    /\ newlyDone = <<>>
    /\ IsDone(goals[1])
    /\ ran[goals[1]] = 1
    /\ \E t \in DOMAIN tasks : Phase(tasks[t]) = 0

\* The step in which a walk fails: an action, a cycle or a derivation error.
WalkFails == pc \in {"do", "deps", "exec"} /\ pc' = "idle" /\ err' # ""

ActionErrs == {"rule error", "PleaseProvide error",
               "can't use nil pointer to automatically provide value"}

Waiting(t) == t \in DOMAIN tasks /\ tasks[t].InProgress /\ ~tasks[t].Done

\* C16: nothing is rolled back when a walk fails.  The failing step leaves
\* every task as it is, so the tasks of the stack that are in progress stay
\* in progress and not Done and the tasks completed earlier stay Done; it
\* leaves every stored value in place; and when an action returned the
\* error, its task is in progress and not Done after the call.
C16_NoRollback ==
    /\ [][WalkFails =>
            /\ \A t \in DOMAIN tasks : t \in DOMAIN tasks' /\ tasks'[t] = tasks[t]
            /\ \A t \in Range(stack) : Waiting(t) => Waiting(t)'
            /\ \A typ \in DOMAIN values :
                  typ \in DOMAIN values' /\ values'[typ] = values[typ]]_vars
    /\ []((ReturnedErr("Provide") /\ err \in ActionErrs) =>
            (cur = Top(stack) /\ Waiting(cur)))
    /\ [](ReturnedErr("Provide") =>
            \A i \in 1..Len(newlyDone) :
                IsDone(newlyDone[i]) /\ newlyDone[i].Type \in DOMAIN values)

\* PleaseProvide of a field's type returned an error after the allocation of
\* that type had completed in the same walk: the allocation is Done with its
\* value stored, the failing task and the requested task are in progress.
C16_Witness ==
    /\ ReturnedErr("Provide")
    /\ err = "PleaseProvide error"
    /\ Len(stack) = 3
    /\ cur = stack[3]
    /\ Waiting(stack[1])
    /\ Waiting(cur)
    /\ newlyDone # <<>>
    /\ IsDone(newlyDone[1])
    /\ newlyDone[1].Type \in DOMAIN values

DonePartials == {t \in DOMAIN tasks : ~t.Complete /\ tasks[t].Done}

\* The goals after the first are Complete goals of Partial tasks that are
\* Done, one for each.
GoalsBounded ==
    /\ \A i \in 2..Len(goals) :
          goals[i].Complete /\ task(goals[i].Type, FALSE) \in DonePartials
    /\ \A i, j \in 2..Len(goals) : i # j => goals[i] # goals[j]

\* C17: every Provide call returns, with nil or with an error, whatever the
\* task graph: the walk of do and the worklist of complete terminate.  The
\* worklist grows only when do returns, by one Complete goal for each
\* Partial task the walk completed.
C17_Termination ==
    /\ (pc # "idle") ~> (pc = "idle")
    /\ []GoalsBounded
    /\ [][goals' # goals =>
            \/ pc = "slot" /\ Len(goals') = 1
            \/ pc = "complete" /\ goals' = <<>>
            \/ /\ pc = "do"
               /\ goals' = goals \o newGoals(newlyDone)
               /\ Len(goals') - Len(goals)
                     <= Cardinality({t \in Range(newlyDone) : ~t.Complete /\ IsDone(t)})]_vars

\* The worklist has grown and the walk of its second goal, a task that
\* depends on itself, has the task on the stack twice.
C17_Witness ==
    /\ pc = "do"
    /\ Len(goals) >= 2
    /\ gi = 2
    /\ Len(stack) = 2
    /\ stack[1] = stack[2]
    /\ OnCycle(stack[1])

NoValueErr == "should never happen: couldn't find value"

\* C18: while no operation has returned an error, every type whose Complete
\* task is Done has a value in the value map; and Provide never returns the
\* "should never happen: couldn't find value" error.
C18_ValuePresence ==
    /\ err = "" => \A typ \in Types : IsDone(task(typ, TRUE)) => typ \in DOMAIN values
    /\ err # NoValueErr

\* complete has returned nil for a requested non-pointer type, whose value
\* was made by dereferencing the pointer's, and Provide looks the value up.
C18_Witness ==
    /\ pc = "complete"
    /\ gi > Len(goals)
    /\ err = ""
    /\ IsDone(task(reqs[si], TRUE))
    /\ reqs[si] \in DOMAIN values
    /\ values[reqs[si]].by = "elem"

Walking == pc \in {"do", "deps", "exec"}

\* The last position of a task in progress and not Done on the stack.
LastWaiting(i) ==
    Waiting(stack[i]) /\ \A j \in (i + 1)..Len(stack) : stack[j] # stack[i]

\* The tasks of the stack that are in progress and not Done, from the bottom,
\* each once.
WaitSeq ==
    LET at == SelectSeq([i \in 1..Len(stack) |-> i], LastWaiting)
    IN [k \in 1..Len(at) |-> stack[at[k]]]

\* The task the walk is inspecting.
Inspected == IF pc = "do" THEN Top(stack) ELSE cur

\* The tasks in progress are on the stack and are a path of dependency edges
\* that ends at the inspected task.
WaitingPath ==
    /\ \A t \in DOMAIN tasks : Waiting(t) => t \in Range(stack)
    /\ \A i \in 1..(Len(WaitSeq) - 1) : WaitSeq[i + 1] \in Deps(WaitSeq[i])
    /\ (WaitSeq # <<>> /\ stack # <<>>) =>
          \/ Inspected = Top(WaitSeq)
          \/ Inspected \in Deps(Top(WaitSeq))

\* C19: no false cycle report.  During a walk on a Provider that has returned
\* no error the tasks in progress and not Done are all on the stack and form
\* a dependency path that ends at the inspected task; and a cycle error is
\* returned only when the dependency in progress reaches the inspected task,
\* which depends on it: the graph has a cycle through that task.
C19_NoFalseCycle ==
    /\ (Walking /\ err = "") => WaitingPath
    /\ err = "cycle" =>
          /\ OnCycle(cur)
          /\ Waiting(tasks[cur].DependsOn[di])
          /\ cur \in ReachableFrom({tasks[cur].DependsOn[di]})

\* A diamond without a cycle: the task at the top of the stack was pushed by
\* the second of two waiting tasks and, below, by the first.
C19_Witness ==
    /\ pc = "do"
    /\ err = ""
    /\ Len(WaitSeq) = 2
    /\ Top(stack) \in Deps(WaitSeq[1]) \cap Deps(WaitSeq[2])
    /\ Cardinality({i \in 1..Len(stack) : stack[i] = Top(stack)}) = 2
    /\ \A t \in DOMAIN tasks : ~OnCycle(t)

\* No walk is running: no call executes, or Provide is between two walks.
BetweenWalks == pc \in {"idle", "slot", "complete"}

\* C20: when no walk is running and no operation has returned an error, every
\* task is not started or Done: none is in progress without being Done, so
\* every walk starts from a state without a task in progress.
C20_Quiescence ==
    (BetweenWalks /\ err = "") => \A t \in DOMAIN tasks : ~Waiting(t)

\* Provide returned nil after a walk that ran actions; the tasks it visited
\* are Done and a task it did not need is not started.
C20_Witness ==
    /\ ReturnedNil("Provide")
    /\ Len(slots) >= 1
    /\ slots[1] # NoValue
    /\ \E t \in DOMAIN tasks : tasks[t].Done /\ ran[t] = 1 /\ t.Complete
    /\ \E t \in DOMAIN tasks : Phase(tasks[t]) = 0

====
